---- MODULE Spec2Model ----
(***************************************************************************)
(* Handoff: project / payment tracker.                                     *)
(*                                                                         *)
(* The module models                                                       *)
(*   - the status engine of frontend/src/utils/status.ts (pure functions   *)
(*     over a Project record), evaluated by the render of the project      *)
(*     detail page;                                                        *)
(*   - the project detail page (payment, status and link handlers) on top  *)
(*     of the context's updateProject and the backend's UpdateProject;     *)
(*   - the HTTP API of the backend (create, read, update, delete) driven  *)
(*     by an arbitrary client;                                             *)
(*   - two browsers that record a payment on the same project, each step   *)
(*     of the exchange with the backend on its own;                        *)
(*   - a single update request with well-formed and malformed fields;      *)
(*   - the project form editing the money fields of a stored project;      *)
(*   - the operations of the project context, started while others are     *)
(*     in flight.                                                          *)
(*                                                                         *)
(* JavaScript values are tagged records, so that truthiness (!v, v || w)   *)
(* and the null test (v != null) are two different things, as in the code. *)
(* Time is counted in hours; an instant is hours since day 0, 00:00 UTC.   *)
(***************************************************************************)
EXTENDS Integers, Sequences, FiniteSets, TLC

VARIABLES
    project,        \* the Project record held by the page (useState project)
    now,            \* the instant new Date() returns, hours since day 0 UTC
    tzOffset,       \* local time = UTC + tzOffset (hours)
    derived,        \* values computed by the last render of the page
    store,          \* the backend's row for the project (projects table)
    editingLink,    \* which link is being edited: "none", "repo", "live", "video"
    tempLinkValue,  \* the text in the link input
    response,       \* the last request made directly to the HTTP API, with its answer
    pages,          \* two browsers on the same project: for each its copy of the
                    \* record and the progress of its record-payment action
    formData,       \* the record being edited in the project form (useState formData)
    ctx             \* the project context: cached list, loading flag, operations in flight

vars == <<project, now, tzOffset, derived, store, editingLink, tempLinkValue, response,
          pages, formData, ctx>>

-----------------------------------------------------------------------------
(* Bounds *)

MaxAmount == 3          \* totalAmount ranges over 0..MaxAmount
MaxOverpay == 1         \* totalReceived ranges over 0..MaxAmount+MaxOverpay
MaxAdvance == 1         \* advanceReceived ranges over 0..MaxAdvance
MaxDay == 3             \* calendar days 0..MaxDay
MaxOffset == 2          \* time-zone offsets -MaxOffset..MaxOffset hours

HoursPerDay == 24

-----------------------------------------------------------------------------
(* JavaScript values *)

Null == [t |-> "null"]                      \* undefined / null (absent field)
Str(s) == [t |-> "str", s |-> s]            \* a string that is not a date text
Num(n) == [t |-> "num", n |-> n]            \* a number (optional numeric field)
Frac(n) == [t |-> "frac", n |-> n]          \* the number n + 1/2, n >= 0
Arr(a) == [t |-> "arr", a |-> a]            \* an array
Json(a) == [t |-> "json", a |-> a]          \* a string holding the JSON text of array a
\* a string holding ISO date text: "YYYY-MM-DD" (form "date"),
\* "YYYY-MM-DDTHH:00:00" without zone (form "local") or with Z (form "utc")
DateText(form, day, hour) == [t |-> "date", form |-> form, day |-> day, hour |-> hour]

\* JavaScript truthiness: !v is ~Truthy(v)
Truthy(v) ==
    CASE v.t = "null" -> FALSE
      [] v.t = "str"  -> v.s # ""
      [] v.t = "num"  -> v.n # 0
      [] v.t = "frac" -> TRUE
      [] v.t = "arr"  -> TRUE
      [] v.t = "date" -> TRUE
      [] v.t = "json" -> TRUE

\* typeof v === 'string' (Go: value.(string) succeeds)
IsString(v) == v.t \in {"str", "date", "json"}

Max(a, b) == IF a >= b THEN a ELSE b

-----------------------------------------------------------------------------
(* Dates: new Date(text), new Date(), setHours(0,0,0,0), a < b *)

NaN == [valid |-> FALSE, t |-> 0]
Instant(t) == [valid |-> TRUE, t |-> t]

\* new Date(text) in a zone tz hours ahead of UTC.  Date-only text is parsed
\* as UTC midnight, date-time text without zone as local time, text with Z as
\* UTC; anything else is an Invalid Date.
JSDate(v, tz) ==
    IF v.t = "date"
    THEN CASE v.form = "date"  -> Instant(v.day * HoursPerDay)
           [] v.form = "local" -> Instant(v.day * HoursPerDay + v.hour - tz)
           [] v.form = "utc"   -> Instant(v.day * HoursPerDay + v.hour)
    ELSE NaN

\* now.setHours(0, 0, 0, 0): local midnight of the local day of n
SetHoursZero(n, tz) == Instant(((n + tz) \div HoursPerDay) * HoursPerDay - tz)

\* a < b on Date objects: false as soon as one side is NaN
\* a plausible slip: an Invalid Date compared as the epoch
DateLess_nanAsEpoch(a, b) == a.t < b.t

DateLess(a, b) == a.valid /\ b.valid /\ a.t < b.t

-----------------------------------------------------------------------------
(* The status engine: frontend/src/utils/status.ts *)

Statuses == {"Not Started", "In Progress", "Completed (Payment Pending)",
             "Ready to Deliver", "Delivered"}

\* a plausible slip: delivery counted only for completed projects
getProjectStatus_deliveredNeedsCompleted(p) ==
    IF p.deliveredAt # Null /\ p.completedAt # Null THEN "Delivered"
    ELSE LET dueAmount == Max(0, p.totalAmount - p.totalReceived) IN
         IF p.completedAt # Null /\ dueAmount = 0 THEN "Ready to Deliver"
         ELSE IF p.completedAt # Null /\ dueAmount > 0 THEN "Completed (Payment Pending)"
         ELSE IF p.totalReceived > 0 THEN "In Progress"
         ELSE "Not Started"

\* the earlier rule: due amount not clamped at zero
getProjectStatus_unclamped(p) ==
    IF p.deliveredAt # Null THEN "Delivered"
    ELSE LET dueAmount == p.totalAmount - p.totalReceived IN
         IF p.completedAt # Null /\ dueAmount = 0 THEN "Ready to Deliver"
         ELSE IF p.completedAt # Null /\ dueAmount > 0 THEN "Completed (Payment Pending)"
         ELSE IF p.totalReceived > 0 THEN "In Progress"
         ELSE "Not Started"

\* the earlier rule: the first branch keyed off advanceReceived
getProjectStatus_advanceKeyed(p) ==
    IF p.deliveredAt # Null THEN "Delivered"
    ELSE LET dueAmount == Max(0, p.totalAmount - p.totalReceived) IN
         IF p.completedAt # Null /\ dueAmount = 0 THEN "Ready to Deliver"
         ELSE IF p.completedAt # Null /\ dueAmount > 0 THEN "Completed (Payment Pending)"
         ELSE IF p.advanceReceived > 0 THEN "In Progress"
         ELSE "Not Started"

getProjectStatus(p) ==
    IF p.deliveredAt # Null THEN "Delivered"
    ELSE LET dueAmount == Max(0, p.totalAmount - p.totalReceived) IN
         IF p.completedAt # Null /\ dueAmount = 0 THEN "Ready to Deliver"
         ELSE IF p.completedAt # Null /\ dueAmount > 0 THEN "Completed (Payment Pending)"
         ELSE IF p.totalReceived > 0 THEN "In Progress"
         ELSE "Not Started"

\* the earlier rule: due amount not clamped at zero
getDueAmount_unclamped(p) == p.totalAmount - p.totalReceived

getDueAmount(p) == Max(0, p.totalAmount - p.totalReceived)

\* a plausible slip: the gate also asks for completion
canAccessLinks_needsCompleted(p) == getDueAmount(p) = 0 /\ p.completedAt # Null

canAccessLinks(p) == getDueAmount(p) = 0

\* a plausible slip: finished projects still compared with the deadline
isOverdue_ignoresLifecycle(p, n, tz) ==
    IF ~Truthy(p.deadline)
    THEN FALSE
    ELSE DateLess(JSDate(p.deadline, tz), SetHoursZero(n, tz))

isOverdue(p, n, tz) ==
    IF ~Truthy(p.deadline) \/ Truthy(p.completedAt) \/ Truthy(p.deliveredAt)
    THEN FALSE
    ELSE DateLess(JSDate(p.deadline, tz), SetHoursZero(n, tz))

\* a plausible slip: the deliverables check tests the tech stack again
getMissingCompletionRequirements_copyPaste(p) ==
    (IF ~Truthy(p.clientName) THEN <<"Client name">> ELSE <<>>)
    \o (IF ~Truthy(p.techStack) THEN <<"Tech stack">> ELSE <<>>)
    \o (IF ~Truthy(p.techStack) THEN <<"Deliverables">> ELSE <<>>)

getMissingCompletionRequirements(p) ==
    (IF ~Truthy(p.clientName) THEN <<"Client name">> ELSE <<>>)
    \o (IF ~Truthy(p.techStack) THEN <<"Tech stack">> ELSE <<>>)
    \o (IF ~Truthy(p.deliverables) THEN <<"Deliverables">> ELSE <<>>)

\* a plausible slip: only an absent link counted, the empty string let through
getMissingDeliveryRequirements_nullOnly(p) ==
    (IF p.repoLink = Null THEN <<"Repository link">> ELSE <<>>)
    \o (IF p.liveLink = Null THEN <<"Live link">> ELSE <<>>)
    \o (IF p.completionVideoLink = Null THEN <<"Completion video">> ELSE <<>>)

getMissingDeliveryRequirements(p) ==
    (IF ~Truthy(p.repoLink) THEN <<"Repository link">> ELSE <<>>)
    \o (IF ~Truthy(p.liveLink) THEN <<"Live link">> ELSE <<>>)
    \o (IF ~Truthy(p.completionVideoLink) THEN <<"Completion video">> ELSE <<>>)

-----------------------------------------------------------------------------
(* The Project record: frontend/src/models/Project.ts *)

BaseProject ==
    [id |-> "p1", createdAt |-> "t0", name |-> "Site", type |-> "software",
     clientName |-> Null, deadline |-> Null,
     completedAt |-> Null, deliveredAt |-> Null,
     totalAmount |-> 1, advanceReceived |-> 0, totalReceived |-> 0,
     partnerShareGiven |-> Null, partnerShareDate |-> Null,
     harshkShareGiven |-> Null, harshkShareDate |-> Null,
     nikkuShareGiven |-> Null, nikkuShareDate |-> Null,
     completionVideoLink |-> Null, repoLink |-> Null, liveLink |-> Null,
     techStack |-> Null, deliverables |-> Null]

-----------------------------------------------------------------------------
(* The render of the detail page: ProjectDetail evaluates the engine on the *)
(* record it holds and shows the links.                                     *)

NotRendered == [rendered |-> FALSE]

\* what the link row shows when it is not being edited: the raw link inside
\* an anchor when the link is truthy, "Not added" (Null here) otherwise
ShownLink(link, editing) == IF ~editing /\ Truthy(link) THEN link ELSE Null

RenderValues(p, n, tz, editing) ==
    [rendered          |-> TRUE,
     status            |-> getProjectStatus(p),
     dueAmount         |-> getDueAmount(p),
     canAccess         |-> canAccessLinks(p),
     overdue           |-> isOverdue(p, n, tz),
     missingCompletion |-> getMissingCompletionRequirements(p),
     missingDelivery   |-> getMissingDeliveryRequirements(p),
     shownRepoLink     |-> ShownLink(p.repoLink, editing = "repo"),
     shownLiveLink     |-> ShownLink(p.liveLink, editing = "live")]

-----------------------------------------------------------------------------
(* Input sets of the engine specification *)

Days == 0..MaxDay
Offsets == (0 - MaxOffset)..MaxOffset
DeadlineHours == {0, 12, 23}
NowInstants == {d * HoursPerDay + h : d \in 1..MaxDay, h \in 0..(HoursPerDay - 1)}

ADate == DateText("utc", 0, 12)

\* completedAt / deliveredAt: absent, the empty string (the backend accepts
\* it), or a timestamp
LifecycleValues == {Null, Str(""), ADate}

DeadlineValues ==
    {Null, Str(""), Str("not a date")}
    \cup {DateText("date", d, 0) : d \in Days}
    \cup {DateText(f, d, h) : f \in {"local", "utc"}, d \in Days, h \in DeadlineHours}

ShareValues == {Null, Num(1)}
ShareDates == {Null, ADate}

\* the bookkeeping figures of a record
Bookkeeping ==
    [advanceReceived : 0..MaxAdvance,
     partnerShareGiven : ShareValues, partnerShareDate : ShareDates,
     harshkShareGiven : ShareValues, harshkShareDate : ShareDates,
     nikkuShareGiven : ShareValues, nikkuShareDate : ShareDates]

WithBookkeeping(p, b) ==
    [p EXCEPT !.advanceReceived = b.advanceReceived,
              !.partnerShareGiven = b.partnerShareGiven,
              !.partnerShareDate = b.partnerShareDate,
              !.harshkShareGiven = b.harshkShareGiven,
              !.harshkShareDate = b.harshkShareDate,
              !.nikkuShareGiven = b.nikkuShareGiven,
              !.nikkuShareDate = b.nikkuShareDate]

\* records that vary the money and lifecycle fields
StatusRecords ==
    {WithBookkeeping([BaseProject EXCEPT !.deliveredAt = d, !.completedAt = c,
                                         !.totalAmount = a, !.totalReceived = r], b) :
        d \in LifecycleValues, c \in LifecycleValues,
        a \in 0..MaxAmount, r \in 0..(MaxAmount + MaxOverpay), b \in Bookkeeping}

\* records that vary the deadline and lifecycle fields
OverdueRecords ==
    {[BaseProject EXCEPT !.deadline = dl, !.completedAt = c, !.deliveredAt = d] :
        dl \in DeadlineValues, c \in LifecycleValues, d \in LifecycleValues}

TextValues == {Null, Str(""), Str("Acme")}
ListValues == {Null, Str(""), Arr(<<>>), Arr(<<"React">>)}
LinkValues == {Null, Str(""), Str("https://x")}

\* records that vary the metadata and the links
RequirementRecords ==
    {[BaseProject EXCEPT !.clientName = cn, !.techStack = ts, !.deliverables = dv,
                         !.repoLink = rl, !.liveLink = ll, !.completionVideoLink = vl] :
        cn \in TextValues, ts \in ListValues, dv \in ListValues,
        rl \in LinkValues, ll \in LinkValues, vl \in LinkValues}

Ids == {"p1", "p2"}
NoRow == [exists |-> FALSE]
\* a stored row: the money columns of row hold the integer part of the stored
\* number, frac names the money columns whose stored number is that plus 1/2
Entry(row, frac) == [exists |-> TRUE, row |-> row, frac |-> frac]
NoStore == [i \in Ids |-> NoRow]
NoResponse == [op |-> "none"]
NoPages == <<>>
NoForm == <<>>
NoContext == <<>>

-----------------------------------------------------------------------------
(* SpecEngine: the engine applied to every record of the input sets         *)

InitEngine ==
    /\ \/ project \in StatusRecords /\ now = HoursPerDay /\ tzOffset = 0
       \/ project \in OverdueRecords /\ now \in NowInstants /\ tzOffset \in Offsets
       \/ project \in RequirementRecords /\ now = HoursPerDay /\ tzOffset = 0
    /\ derived = NotRendered
    /\ store = NoStore
    /\ editingLink = "none"
    /\ tempLinkValue = Str("")
    /\ response = NoResponse
    /\ pages = NoPages
    /\ formData = NoForm
    /\ ctx = NoContext

\* ProjectDetail's render: status, dueAmount, overdue, the missing lists
Render ==
    /\ ~derived.rendered
    /\ derived' = RenderValues(project, now, tzOffset, editingLink)
    /\ UNCHANGED <<project, now, tzOffset, store, editingLink, tempLinkValue, response, pages, formData, ctx>>

NextEngine == Render

SpecEngine == InitEngine /\ [][NextEngine]_vars

-----------------------------------------------------------------------------
(* Properties of the status engine (checked under SpecEngine) *)

\* a field holds a value: it is neither absent nor the empty string
HasValue(v) == v # Null /\ v # Str("")

IsMoneySlice == project \in StatusRecords

\* C1: a record whose deliveredAt is set (not null) has status 'Delivered',
\* whatever completedAt, totalAmount, totalReceived and the other fields are.
ThmDeliveredTerminal ==
    (derived.rendered /\ project.deliveredAt # Null) => derived.status = "Delivered"

WitDeliveredTerminal ==
    /\ derived.rendered
    /\ project.deliveredAt = ADate
    /\ project.completedAt = Null
    /\ project.totalReceived = 0
    /\ project.totalAmount = MaxAmount
    /\ derived.status = "Delivered"

\* the canonical first-match rule of the specification, for deliveredAt absent
CanonicalStatus(p) ==
    LET due == Max(0, p.totalAmount - p.totalReceived) IN
    CASE p.completedAt # Null /\ due = 0 -> "Ready to Deliver"
      [] p.completedAt # Null /\ due > 0 -> "Completed (Payment Pending)"
      [] p.completedAt = Null /\ p.totalReceived > 0 -> "In Progress"
      [] OTHER -> "Not Started"

\* C2: with deliveredAt absent the status is the canonical first-match rule
\* with due = max(0, totalAmount - totalReceived); the status is always one of
\* the five; an overpaid completed project is 'Ready to Deliver'.
ThmCanonicalRule ==
    derived.rendered =>
        /\ derived.status \in Statuses
        /\ project.deliveredAt = Null => derived.status = CanonicalStatus(project)
        /\ (/\ project.deliveredAt = Null
            /\ project.completedAt # Null
            /\ project.totalReceived > project.totalAmount)
           => derived.status = "Ready to Deliver"

WitCanonicalRule ==
    /\ derived.rendered
    /\ project.deliveredAt = Null
    /\ project.completedAt = ADate
    /\ project.totalAmount = MaxAmount
    /\ project.totalReceived = MaxAmount + 1
    /\ derived.status = "Ready to Deliver"

\* C3: the due amount is max(0, totalAmount - totalReceived): never negative,
\* and 0 whenever totalReceived >= totalAmount.
ThmDueClamped ==
    derived.rendered =>
        /\ derived.dueAmount >= 0
        /\ project.totalReceived >= project.totalAmount => derived.dueAmount = 0
        /\ project.totalReceived < project.totalAmount
           => derived.dueAmount = project.totalAmount - project.totalReceived

WitDueClamped ==
    /\ derived.rendered
    /\ project.totalReceived > project.totalAmount
    /\ project.totalAmount > 0
    /\ derived.dueAmount = 0

\* C4: the gate is open exactly when the due amount is 0; completedAt,
\* deliveredAt, the links and the deadline have no part in it.
ThmGateIsZeroDue ==
    derived.rendered =>
        /\ derived.canAccess <=> (derived.dueAmount = 0)
        /\ derived.canAccess <=> (project.totalReceived >= project.totalAmount)

WitGateIsZeroDue ==
    /\ derived.rendered
    /\ derived.canAccess
    /\ project.completedAt = Null
    /\ project.deliveredAt = Null
    /\ project.repoLink = Null
    /\ project.totalAmount = MaxAmount

\* C6: isOverdue is false when the deadline is absent, or completedAt holds a
\* value, or deliveredAt holds a value, however old the deadline is.
ThmNotOverdueWhenFinished ==
    (/\ derived.rendered
     /\ \/ ~HasValue(project.deadline)
        \/ HasValue(project.completedAt)
        \/ HasValue(project.deliveredAt))
    => derived.overdue = FALSE

WitNotOverdueWhenFinished ==
    /\ derived.rendered
    /\ project.deadline = DateText("date", 0, 0)
    /\ project.completedAt = ADate
    /\ project.deliveredAt = Null
    /\ now >= MaxDay * HoursPerDay
    /\ derived.overdue = FALSE

\* the calendar date of a deadline in the local zone
DeadlineLocalDay(v, tz) ==
    CASE v.form = "date"  -> v.day
      [] v.form = "local" -> v.day
      [] v.form = "utc"   -> (v.day * HoursPerDay + v.hour + tz) \div HoursPerDay

\* today's local calendar date
Today(n, tz) == (n + tz) \div HoursPerDay

\* C7: for an unfinished project, a deadline whose calendar date is today is
\* not overdue and one whose calendar date is before today is overdue, in
\* every zone, at every time of day, for date-only and date-time deadlines.
CexOverdueByCalendarDate ==
    (/\ derived.rendered
     /\ project.deadline.t = "date"
     /\ project.completedAt = Null
     /\ project.deliveredAt = Null)
    => LET d == DeadlineLocalDay(project.deadline, tzOffset)
           today == Today(now, tzOffset) IN
       /\ d = today => ~derived.overdue
       /\ d < today => derived.overdue

\* C8: a deadline that is not date text never makes the project overdue; the
\* result is the one of the same record without a deadline.
ThmUnparsableDeadline ==
    (derived.rendered /\ project.deadline.t = "str")
    => /\ derived.overdue = FALSE
       /\ derived.overdue = isOverdue([project EXCEPT !.deadline = Null], now, tzOffset)

WitUnparsableDeadline ==
    /\ derived.rendered
    /\ project.deadline = Str("not a date")
    /\ project.completedAt = Null
    /\ project.deliveredAt = Null
    /\ derived.overdue = FALSE

\* C9: the bookkeeping figures (advanceReceived and the partner shares with
\* their dates) do not influence status, due amount or gate: every record
\* that differs from the rendered one only in them has the same three values;
\* totalReceived > 0 with advanceReceived = 0 is 'In Progress'.
ThmBookkeepingNonInterference ==
    (derived.rendered /\ IsMoneySlice) =>
        /\ \A b \in Bookkeeping :
              LET q == WithBookkeeping(project, b) IN
              /\ getProjectStatus(q) = derived.status
              /\ getDueAmount(q) = derived.dueAmount
              /\ canAccessLinks(q) = derived.canAccess
        /\ (/\ project.deliveredAt = Null /\ project.completedAt = Null
            /\ project.totalReceived > 0 /\ project.advanceReceived = 0)
           => derived.status = "In Progress"

WitBookkeepingNonInterference ==
    /\ derived.rendered
    /\ project.deliveredAt = Null
    /\ project.completedAt = Null
    /\ project.totalReceived > 0
    /\ project.advanceReceived = 0
    /\ project.nikkuShareGiven = Num(1)
    /\ derived.status = "In Progress"

CompletionLabels == <<"Client name", "Tech stack", "Deliverables">>
CompletionFields(p) == <<p.clientName, p.techStack, p.deliverables>>

\* C10: the missing-completion list holds exactly the labels of the fields
\* among clientName, techStack, deliverables that are absent (no value, or
\* the empty string), in that order, without duplicates; it is empty iff all
\* three are present.
ThmMissingCompletion ==
    derived.rendered =>
        LET m == derived.missingCompletion
            f == CompletionFields(project) IN
        /\ \A i \in 1..3 :
              (\E j \in DOMAIN m : m[j] = CompletionLabels[i]) <=> ~HasValue(f[i])
        /\ \A j \in DOMAIN m : \E i \in 1..3 : m[j] = CompletionLabels[i]
        /\ \A j, k \in DOMAIN m :
              j < k => \E i1, i2 \in 1..3 :
                          /\ i1 < i2
                          /\ m[j] = CompletionLabels[i1]
                          /\ m[k] = CompletionLabels[i2]
        /\ (m = <<>>) <=> (\A i \in 1..3 : HasValue(f[i]))

WitMissingCompletion ==
    /\ derived.rendered
    /\ project.clientName = Null
    /\ project.techStack = Arr(<<"React">>)
    /\ project.deliverables = Str("")
    /\ derived.missingCompletion = <<"Client name", "Deliverables">>

DeliveryLabels == <<"Repository link", "Live link", "Completion video">>
DeliveryFields(p) == <<p.repoLink, p.liveLink, p.completionVideoLink>>

\* C11: the missing-delivery list holds exactly the labels of the links among
\* repoLink, liveLink, completionVideoLink that are missing (absent, or stored
\* as the empty string), in that order, each at most once.
ThmMissingDelivery ==
    derived.rendered =>
        LET m == derived.missingDelivery
            f == DeliveryFields(project) IN
        /\ \A i \in 1..3 :
              (\E j \in DOMAIN m : m[j] = DeliveryLabels[i]) <=> ~HasValue(f[i])
        /\ \A j \in DOMAIN m : \E i \in 1..3 : m[j] = DeliveryLabels[i]
        /\ \A j, k \in DOMAIN m :
              j < k => \E i1, i2 \in 1..3 :
                          /\ i1 < i2
                          /\ m[j] = DeliveryLabels[i1]
                          /\ m[k] = DeliveryLabels[i2]

WitMissingDelivery ==
    /\ derived.rendered
    /\ project.repoLink = Str("")
    /\ project.liveLink = Str("https://x")
    /\ project.completionVideoLink = Null
    /\ derived.missingDelivery = <<"Repository link", "Completion video">>

-----------------------------------------------------------------------------
(* The backend: PUT /projects/{id}, handlers.UpdateProject in the revision  *)
(* that decodes the body as a map and updates only the supplied columns.    *)
(* The pages send numbers in the money fields.                              *)

\* the keys of fieldMap (for the columns the model keeps)
FieldMap ==
    {"name", "clientName", "type", "deadline", "completedAt", "deliveredAt",
     "totalAmount", "advanceReceived", "totalReceived",
     "partnerShareGiven", "partnerShareDate", "harshkShareGiven", "harshkShareDate",
     "nikkuShareGiven", "nikkuShareDate",
     "completionVideoLink", "repoLink", "liveLink", "techStack", "deliverables"}

MoneyColumns == {"totalAmount", "advanceReceived", "totalReceived"}
DateColumns == {"completedAt", "deliveredAt", "partnerShareDate",
                "harshkShareDate", "nikkuShareDate"}

\* the empty string, YYYY-MM-DD, or text starting with YYYY-MM-DDTHH:MM:SS
validateISODate(v) == v = Str("") \/ v.t = "date"

\* the field-specific rules of the switch in UpdateProject
FieldValid(k, v) ==
    CASE k = "name" -> IsString(v) /\ v # Str("")
      [] k = "type" -> v \in {Str("software"), Str("hardware"), Str("mixed")}
      [] k = "deadline" -> IsString(v) /\ v # Str("") /\ validateISODate(v)
      [] k = "totalAmount" -> \/ v.t = "num" /\ v.n > 0
                              \/ v.t = "frac"
      [] k \in DateColumns -> (IsString(v) /\ v # Str("")) => validateISODate(v)
      [] OTHER -> TRUE

TextColumns == {"name", "type"}

\* the value a column holds after the UPDATE (numbers go to the money columns,
\* plain text to the name and type columns; a date column has TEXT affinity
\* and keeps a number as its text)
ColumnValue(k, v) ==
    IF k \in MoneyColumns /\ v.t \in {"num", "frac"} THEN v.n
    ELSE IF k \in TextColumns /\ v.t = "str" THEN v.s
    ELSE IF k \in DateColumns /\ v.t = "num" THEN Str(ToString(v.n))
    ELSE v

\* the money columns a body writes a number with a fractional part to
FracColumns(updates, settable) ==
    {k \in settable \cap MoneyColumns : updates[k].t = "frac"}

\* the earlier handler: the body decoded into a Project, every column written
UpdateProject_fullReplace(st, id, updates) ==
    LET keys == DOMAIN updates
        reject(code) == [status |-> code, store |-> st, body |-> NoRow]
        required == {"name", "type", "deadline", "totalAmount"}
    IN  IF \E k \in required : k \notin keys \/ ~FieldValid(k, updates[k])
        THEN reject(400)
        ELSE IF ~st[id].exists THEN reject(404)
        ELSE LET old == st[id].row
                 new == [k \in DOMAIN old |->
                            IF k \in {"id", "createdAt"} THEN old[k]
                            ELSE IF k \in keys THEN ColumnValue(k, updates[k])
                            ELSE BaseProject[k]]
             IN  [status |-> 200,
                  store  |-> [st EXCEPT ![id] = Entry(new, st[id].frac)],
                  body   |-> new]

\* a plausible slip: createdAt listed in fieldMap and not skipped
UpdateProject_createdAtSettable(st, id, updates) ==
    LET keys == DOMAIN updates
        settable == keys \ {"id"}
        reject(code) == [status |-> code, store |-> st, body |-> NoRow]
    IN  IF keys = {} THEN reject(400)
        ELSE IF ~st[id].exists THEN reject(404)
        ELSE IF \E k \in settable :
                    k \notin (FieldMap \cup {"createdAt"}) \/ ~FieldValid(k, updates[k])
             THEN reject(400)
        ELSE IF settable = {} THEN reject(400)
        ELSE LET old == st[id].row
                 new == [k \in DOMAIN old |->
                            IF k = "createdAt" /\ k \in settable THEN updates[k].s
                            ELSE IF k \in settable THEN ColumnValue(k, updates[k])
                            ELSE old[k]]
             IN  [status |-> 200,
                  store  |-> [st EXCEPT ![id] = Entry(new, st[id].frac)],
                  body   |-> new]

\* a plausible slip: a field that is unknown or fails its rule is left out of
\* the UPDATE (continue) instead of ending the request
UpdateProject_skipInvalid(st, id, updates) ==
    LET keys == DOMAIN updates
        settable == {k \in keys \ {"id", "createdAt"} :
                        k \in FieldMap /\ FieldValid(k, updates[k])}
        reject(code) == [status |-> code, store |-> st, body |-> NoRow]
    IN  IF keys = {} THEN reject(400)
        ELSE IF ~st[id].exists THEN reject(404)
        ELSE IF settable = {} THEN reject(400)
        ELSE LET old == st[id].row
                 new == [k \in DOMAIN old |->
                            IF k \in settable THEN ColumnValue(k, updates[k]) ELSE old[k]]
                 frac == (st[id].frac \ settable) \cup FracColumns(updates, settable)
                 after == [st EXCEPT ![id] = Entry(new, frac)]
             IN  IF frac # {}
                 THEN [status |-> 500, store |-> after, body |-> NoRow]
                 ELSE [status |-> 200, store |-> after, body |-> new]

\* UpdateProject on the table st: the response status, the table afterwards
\* and the returned row.  The UPDATE stores the numbers as they were sent; the
\* SELECT that follows scans the money columns into int64 and fails (500, with
\* the UPDATE done) when one of them holds a number with a fractional part.
UpdateProject(st, id, updates) ==
    LET keys == DOMAIN updates
        settable == keys \ {"id", "createdAt"}
        reject(code) == [status |-> code, store |-> st, body |-> NoRow]
    IN  IF keys = {} THEN reject(400)
        ELSE IF ~st[id].exists THEN reject(404)
        ELSE IF \E k \in settable : k \notin FieldMap \/ ~FieldValid(k, updates[k])
             THEN reject(400)
        ELSE IF settable = {} THEN reject(400)
        ELSE LET old == st[id].row
                 new == [k \in DOMAIN old |->
                            IF k \in settable THEN ColumnValue(k, updates[k]) ELSE old[k]]
                 frac == (st[id].frac \ settable) \cup FracColumns(updates, settable)
                 after == [st EXCEPT ![id] = Entry(new, frac)]
             IN  IF frac # {}
                 THEN [status |-> 500, store |-> after, body |-> NoRow]
                 ELSE [status |-> 200, store |-> after, body |-> new]

\* time.Now().UTC().Format(time.RFC3339) at the moment of the request
ServerNow == "t1"

ProjectTypes == {"software", "hardware", "mixed"}

\* a plausible slip: createdAt stored as sent, not filled in when omitted
CreateProject_noCreatedAtDefault(st, p, fresh) ==
    LET reject(code) == [status |-> code, store |-> st, body |-> NoRow] IN
    IF p.name = "" \/ p.type = "" \/ p.deadline = Str("") \/ p.totalAmount = 0
    THEN reject(400)
    ELSE IF p.type \notin ProjectTypes THEN reject(400)
    ELSE IF ~validateISODate(p.deadline) THEN reject(400)
    ELSE IF p.completedAt # Null /\ ~validateISODate(p.completedAt) THEN reject(400)
    ELSE IF p.deliveredAt # Null /\ ~validateISODate(p.deliveredAt) THEN reject(400)
    ELSE LET id == IF p.id = "" THEN fresh ELSE p.id
             row == [BaseProject EXCEPT !.id = id, !.createdAt = p.createdAt,
                                        !.name = p.name, !.type = p.type,
                                        !.deadline = p.deadline,
                                        !.completedAt = p.completedAt,
                                        !.deliveredAt = p.deliveredAt,
                                        !.totalAmount = p.totalAmount,
                                        !.advanceReceived = p.advanceReceived,
                                        !.totalReceived = p.totalReceived]
         IN  IF st[id].exists
             THEN reject(500)
             ELSE [status |-> 201,
                   store  |-> [st EXCEPT ![id] = Entry(row, {})],
                   body   |-> row]

\* CreateProject on the table st.  p is the decoded body: a field the request
\* omits holds Go's zero value ("" or 0) or nil (Null); fresh is the identifier
\* generateID() returns.
CreateProject(st, p, fresh) ==
    LET reject(code) == [status |-> code, store |-> st, body |-> NoRow] IN
    IF p.name = "" \/ p.type = "" \/ p.deadline = Str("") \/ p.totalAmount = 0
    THEN reject(400)
    ELSE IF p.type \notin ProjectTypes THEN reject(400)
    ELSE IF ~validateISODate(p.deadline) THEN reject(400)
    ELSE IF p.completedAt # Null /\ ~validateISODate(p.completedAt) THEN reject(400)
    ELSE IF p.deliveredAt # Null /\ ~validateISODate(p.deliveredAt) THEN reject(400)
    ELSE LET createdAt == IF p.createdAt = "" THEN ServerNow ELSE p.createdAt
             id == IF p.id = "" THEN fresh ELSE p.id
             row == [BaseProject EXCEPT !.id = id, !.createdAt = createdAt,
                                        !.name = p.name, !.type = p.type,
                                        !.deadline = p.deadline,
                                        !.completedAt = p.completedAt,
                                        !.deliveredAt = p.deliveredAt,
                                        !.totalAmount = p.totalAmount,
                                        !.advanceReceived = p.advanceReceived,
                                        !.totalReceived = p.totalReceived]
         IN  IF st[id].exists
             THEN reject(500)       \* INSERT fails on the primary key
             ELSE [status |-> 201,
                   store  |-> [st EXCEPT ![id] = Entry(row, {})],
                   body   |-> row]

\* GetProject: the row, or 404 when the SELECT finds none
GetProject(st, id) ==
    IF ~st[id].exists THEN [status |-> 404, store |-> st, body |-> NoRow]
    ELSE IF st[id].frac # {} THEN [status |-> 500, store |-> st, body |-> NoRow]
    ELSE [status |-> 200, store |-> st, body |-> st[id].row]

\* a plausible slip: the number of deleted rows not looked at
DeleteProject_alwaysOk(st, id) ==
    [status |-> 200, store |-> [st EXCEPT ![id] = NoRow], body |-> NoRow]

\* DeleteProject: DELETE ... WHERE id = ?, 404 when no row was affected
DeleteProject(st, id) ==
    IF st[id].exists
    THEN [status |-> 200, store |-> [st EXCEPT ![id] = NoRow], body |-> NoRow]
    ELSE [status |-> 404, store |-> st, body |-> NoRow]

-----------------------------------------------------------------------------
(* The project context: normalizeProject, serializeProject, updateProject   *)

normalizeArrayField(field) ==
    IF ~Truthy(field) THEN Arr(<<>>)
    ELSE IF field.t = "arr" THEN field
    ELSE IF field.t = "json" THEN Arr(field.a)
    ELSE IF field.t = "str" THEN Arr(<<field.s>>)
    ELSE Arr(<<>>)

normalizeProject(data) ==
    [data EXCEPT !.techStack = normalizeArrayField(data.techStack),
                 !.deliverables = normalizeArrayField(data.deliverables)]

serializeProject(u) ==
    [k \in DOMAIN u |->
        IF k \in {"techStack", "deliverables"} /\ u[k].t = "arr" THEN Json(u[k].a) ELSE u[k]]

\* updateProject(id, projectUpdates): ok with the normalized record, or a throw
ContextUpdateProject(st, id, projectUpdates) ==
    LET res == UpdateProject(st, id, serializeProject(projectUpdates)) IN
    IF res.status = 200
    THEN [ok |-> TRUE, store |-> res.store, project |-> normalizeProject(res.body)]
    ELSE [ok |-> FALSE, store |-> res.store, project |-> NoRow]

-----------------------------------------------------------------------------
(* The project detail page, in the revision that has both the 'Mark as      *)
(* Completed' and the 'Mark as Delivered' button and asks for all three     *)
(* delivery links.  updateProject is awaited by every handler; the request  *)
(* and its response are one step here.                                      *)

MaxPayment == 2         \* entered payment amounts range over -1..MaxPayment

PageId == "p1"

\* what the amount input can hold: nothing, text that is not a number, a
\* whole number, or a number with decimals (one half)
PaymentInputs ==
    {Str(""), Str("abc"), Frac(0)} \cup {Num(n) : n \in (0 - 1)..MaxPayment}
LinkInputs == {Str(""), Str("https://x"), Str("not a url")}

\* new URL(url) succeeds
validateURL(url) == ~Truthy(url) \/ url = Str("https://x")

\* new Date().toISOString()
NowISO == DateText("utc", now \div HoursPerDay, now % HoursPerDay)

EditKey(field) ==
    CASE field = "repoLink" -> "repo"
      [] field = "liveLink" -> "live"
      [] field = "completionVideoLink" -> "video"

\* the page after updateProject resolved (setProject) or threw (no change)
AfterUpdate(res, editing, temp) ==
    /\ store' = res.store
    /\ project' = IF res.ok THEN res.project ELSE project
    /\ editingLink' = editing
    /\ tempLinkValue' = temp
    /\ derived' = RenderValues(project', now, tzOffset, editing)
    /\ UNCHANGED <<now, tzOffset, response, pages, formData, ctx>>

\* Number(paymentAmount) is a number > 0 ("Decimals allowed")
handlePaymentSubmit(paymentAmount) ==
    IF paymentAmount.t \notin {"num", "frac"} \/ (paymentAmount.t = "num" /\ paymentAmount.n <= 0)
    THEN UNCHANGED vars
    ELSE /\ project.totalReceived + paymentAmount.n <= MaxAmount + MaxOverpay
         /\ LET sum == project.totalReceived + paymentAmount.n
                newTotalReceived == IF paymentAmount.t = "frac" THEN Frac(sum) ELSE Num(sum)
                res == ContextUpdateProject(store, PageId,
                                            [k \in {"totalReceived"} |-> newTotalReceived])
            IN  AfterUpdate(res, editingLink, tempLinkValue)

\* the 'Mark as Completed' / 'Mark as Delivered' buttons and their handler
handleStatusUpdate(type) ==
    /\ \/ /\ type = "completed"
          /\ derived.status = "In Progress"
          /\ derived.missingCompletion = <<>>
       \/ /\ type = "delivered"
          /\ derived.status = "Ready to Deliver"
          /\ derived.dueAmount = 0
          /\ derived.missingDelivery = <<>>
    /\ LET key == IF type = "delivered" THEN "deliveredAt" ELSE "completedAt"
           res == ContextUpdateProject(store, PageId, [k \in {key} |-> NowISO])
       IN  AfterUpdate(res, editingLink, tempLinkValue)

startEditing(field) ==
    /\ editingLink # EditKey(field)
    /\ editingLink' = EditKey(field)
    /\ tempLinkValue' = IF Truthy(project[field]) THEN project[field] ELSE Str("")
    /\ derived' = RenderValues(project, now, tzOffset, editingLink')
    /\ UNCHANGED <<project, now, tzOffset, store, response, pages, formData, ctx>>

\* typing in the link input
setTempLinkValue(v) ==
    /\ editingLink # "none"
    /\ tempLinkValue' = v
    /\ UNCHANGED <<project, now, tzOffset, derived, store, editingLink, response, pages, formData, ctx>>

cancelEditing ==
    /\ editingLink # "none"
    /\ editingLink' = "none"
    /\ derived' = RenderValues(project, now, tzOffset, "none")
    /\ UNCHANGED <<project, now, tzOffset, store, tempLinkValue, response, pages, formData, ctx>>

handleLinkUpdate(field) ==
    /\ editingLink = EditKey(field)
    /\ IF Truthy(tempLinkValue) /\ ~validateURL(tempLinkValue)
       THEN UNCHANGED vars
       ELSE LET res == ContextUpdateProject(store, PageId,
                                            [k \in {field} |-> tempLinkValue])
            IN  IF res.ok
                THEN AfterUpdate(res, "none", Str(""))
                ELSE AfterUpdate(res, editingLink, tempLinkValue)

LinkFields == {"repoLink", "liveLink", "completionVideoLink"}

\* rows as the project form and CreateProject leave them
CreatedRows ==
    {[BaseProject EXCEPT !.clientName = cn, !.techStack = ts, !.deliverables = ts,
                         !.deadline = DateText("date", 1, 0),
                         !.totalAmount = a, !.advanceReceived = adv,
                         !.totalReceived = adv] :
        cn \in {Str(""), Str("Acme")}, ts \in {Null, Json(<<"React">>)},
        a \in {1, MaxAmount}, adv \in {0, MaxAdvance}}

\* the page mounted on a stored project: fetchProject, then the first render
Init ==
    /\ \E r \in CreatedRows :
          /\ store = [i \in Ids |-> IF i = PageId THEN Entry(r, {}) ELSE NoRow]
          /\ project = normalizeProject(r)
    /\ now = HoursPerDay + 12
    /\ tzOffset = 0
    /\ editingLink = "none"
    /\ tempLinkValue = Str("")
    /\ derived = RenderValues(project, now, tzOffset, editingLink)
    /\ response = NoResponse
    /\ pages = NoPages
    /\ formData = NoForm
    /\ ctx = NoContext

Next ==
    \/ \E a \in PaymentInputs : handlePaymentSubmit(a)
    \/ \E type \in {"completed", "delivered"} : handleStatusUpdate(type)
    \/ \E f \in LinkFields : startEditing(f)
    \/ \E v \in LinkInputs : setTempLinkValue(v)
    \/ cancelEditing
    \/ \E f \in LinkFields : handleLinkUpdate(f)

Spec == Init /\ [][Next]_vars

-----------------------------------------------------------------------------
(* Properties of the detail page (checked under Spec) *)

\* C17: the stored totalAmount, advanceReceived and totalReceived of every
\* record are whole numbers.
CexMoneyWhole ==
    \A i \in Ids : store[i].exists => store[i].frac = {}

\* C20: while the stored techStack (deliverables) of the project is absent,
\* the page that loaded it through the context lists 'Tech stack'
\* ('Deliverables') as missing, and the project is not marked completed.
CexAbsentStackReported ==
    LET row == store[PageId].row
        m == derived.missingCompletion
    IN  /\ row.techStack = Null
           => /\ \E j \in DOMAIN m : m[j] = "Tech stack"
              /\ row.completedAt = Null
        /\ row.deliverables = Null
           => /\ \E j \in DOMAIN m : m[j] = "Deliverables"
              /\ row.completedAt = Null

\* C5: while the gate is closed (due amount > 0) the page shows neither the
\* raw repoLink nor the raw liveLink.
CexEscrowGate ==
    (derived.rendered /\ ~derived.canAccess)
    => (derived.shownRepoLink = Null /\ derived.shownLiveLink = Null)

\* the place of a status in Not Started < In Progress < Completed (Payment
\* Pending) < Ready to Deliver < Delivered
StatusRank(s) ==
    CASE s = "Not Started" -> 0
      [] s = "In Progress" -> 1
      [] s = "Completed (Payment Pending)" -> 2
      [] s = "Ready to Deliver" -> 3
      [] s = "Delivered" -> 4

\* the stored record of the page's project
Stored == store[PageId].row

\* C22: no action of the detail page moves the status derived from the record
\* the page holds, or from the stored record, to an earlier stage.
ThmStatusMonotone ==
    /\ [][StatusRank(derived'.status) >= StatusRank(derived.status)]_vars
    /\ [][StatusRank(getProjectStatus(Stored'))
            >= StatusRank(getProjectStatus(Stored))]_vars

\* the project went through every stage the buttons lead to
WitStatusMonotone ==
    /\ derived.status = "Delivered"
    /\ getProjectStatus(Stored) = "Delivered"
    /\ project.completedAt # Null
    /\ project.totalReceived > project.advanceReceived

DeliveryGateRest ==
    /\ [](derived.status = "Delivered" => derived.canAccess)
    /\ [][(Stored.completedAt = Null /\ Stored'.completedAt # Null)
            => /\ getProjectStatus(Stored) = "In Progress"
               /\ getMissingCompletionRequirements(normalizeProject(Stored)) = <<>>]_vars

-----------------------------------------------------------------------------
(* SpecStore: the HTTP API driven by an arbitrary client.  Every request is *)
(* one step (the handler runs its statements in one database connection);   *)
(* response keeps the request, the answer and the table before the request. *)

\* the fields update bodies are built from ("colour" is not a field of the
\* record) and the values tried for each
PayloadKeys ==
    {"id", "createdAt", "name", "totalAmount", "totalReceived", "deliveredAt", "colour"}

PayloadValues(k) ==
    CASE k = "id"            -> {Str("p2")}
      [] k = "createdAt"     -> {Str("t9")}
      [] k = "name"          -> {Str("")}
      [] k = "totalAmount"   -> {Num(0 - 1), Num(0), Num(2)}
      [] k = "totalReceived" -> {Num(1)}
      [] k = "deliveredAt"   -> {Null, ADate, Str("yesterday")}
      [] k = "colour"        -> {Num(1)}

AllPayloadValues == UNION {PayloadValues(k) : k \in PayloadKeys}

\* the sets of fields an update body names: none, one, or one of a few pairs
PayloadKeySets ==
    {{}} \cup {{k} : k \in PayloadKeys}
    \cup {{"id", "createdAt"}, {"id", "totalReceived"}, {"createdAt", "deliveredAt"},
          {"totalReceived", "deliveredAt"}, {"totalAmount", "totalReceived"},
          {"colour", "totalReceived"}, {"id", "createdAt", "totalReceived"}}

UpdateBodies ==
    UNION {{u \in [K -> AllPayloadValues] : \A k \in K : u[k] \in PayloadValues(k)} :
              K \in PayloadKeySets}

GoodDeadline == DateText("date", 1, 0)

\* create bodies: a well-formed one and those with one required field
\* omitted or malformed; id and createdAt supplied or omitted
GoodBody ==
    [id |-> "", createdAt |-> "", name |-> "Site", type |-> "software",
     deadline |-> GoodDeadline, totalAmount |-> 1,
     completedAt |-> Null, deliveredAt |-> Null,
     advanceReceived |-> 0, totalReceived |-> 0]

\* create bodies: the well-formed ones (id and createdAt supplied or omitted,
\* the amount positive, zero/omitted or negative, delivered or not) and those
\* with one of name, type, deadline omitted or malformed
CreateBodies ==
    {[GoodBody EXCEPT !.id = i, !.createdAt = c, !.totalAmount = a, !.deliveredAt = d] :
        i \in {"", "p1"}, c \in {"", "t0"}, a \in {0 - 1, 0, 1}, d \in {Null, ADate}}
    \cup {[GoodBody EXCEPT !.name = ""]}
    \cup {[GoodBody EXCEPT !.type = t] : t \in {"", "plugin"}}
    \cup {[GoodBody EXCEPT !.deadline = dl] : dl \in {Str(""), Str("soon")}}

Exchange(op, id, payload, res) ==
    [op |-> op, id |-> id, payload |-> payload,
     status |-> res.status, body |-> res.body, before |-> store]

\* POST /projects
RequestCreate(p) ==
    \E fresh \in Ids :
        /\ IF p.id = "" THEN ~store[fresh].exists ELSE fresh = p.id
        /\ LET res == CreateProject(store, p, fresh) IN
           /\ store' = res.store
           /\ response' = Exchange("create", fresh, p, res)
        /\ UNCHANGED <<project, now, tzOffset, derived, editingLink, tempLinkValue, pages, formData, ctx>>

\* PUT /projects/{id}
RequestUpdate(id, updates) ==
    LET res == UpdateProject(store, id, updates) IN
    /\ store' = res.store
    /\ response' = Exchange("update", id, updates, res)
    /\ UNCHANGED <<project, now, tzOffset, derived, editingLink, tempLinkValue, pages, formData, ctx>>

\* GET /projects/{id}
RequestGet(id) ==
    LET res == GetProject(store, id) IN
    /\ store' = res.store
    /\ response' = Exchange("get", id, <<>>, res)
    /\ UNCHANGED <<project, now, tzOffset, derived, editingLink, tempLinkValue, pages, formData, ctx>>

\* DELETE /projects/{id}
RequestDelete(id) ==
    LET res == DeleteProject(store, id) IN
    /\ store' = res.store
    /\ response' = Exchange("delete", id, <<>>, res)
    /\ UNCHANGED <<project, now, tzOffset, derived, editingLink, tempLinkValue, pages, formData, ctx>>

InitStore ==
    /\ store = NoStore
    /\ response = NoResponse
    /\ pages = NoPages
    /\ formData = NoForm
    /\ ctx = NoContext
    /\ project = BaseProject
    /\ now = HoursPerDay
    /\ tzOffset = 0
    /\ derived = NotRendered
    /\ editingLink = "none"
    /\ tempLinkValue = Str("")

NextStore ==
    \/ \E p \in CreateBodies : RequestCreate(p)
    \/ \E id \in Ids, u \in UpdateBodies : RequestUpdate(id, u)
    \/ \E id \in Ids : RequestGet(id)
    \/ \E id \in Ids : RequestDelete(id)

SpecStore == InitStore /\ [][NextStore]_vars

-----------------------------------------------------------------------------
(* Properties of the HTTP API (checked under SpecStore) *)

\* the value a record holds for a value sent as JSON
StoredAs(v) == IF v.t = "num" THEN v.n ELSE v

Updatable(u) == DOMAIN u \ {"id", "createdAt"}

\* C12: a successful update leaves every updatable field the body names at the
\* supplied value, every other field of the record and every other record as
\* before, and returns the record; a body holding only totalReceived, or only
\* deliveredAt, sent for an existing record is accepted.
ThmPartialUpdate ==
    response.op = "update" =>
        LET id == response.id
            u == response.payload
            b == response.before
        IN  /\ response.status = 200 =>
                  /\ b[id].exists /\ store[id].exists
                  /\ \A k \in DOMAIN store[id].row :
                        store[id].row[k] = IF k \in Updatable(u) THEN StoredAs(u[k])
                                           ELSE b[id].row[k]
                  /\ \A j \in Ids \ {id} : store[j] = b[j]
                  /\ response.body = store[id].row
            /\ (/\ b[id].exists
                /\ \/ DOMAIN u = {"totalReceived"}
                   \/ DOMAIN u = {"deliveredAt"} /\ u["deliveredAt"] = ADate)
               => response.status = 200

WitPartialUpdate ==
    /\ response.op = "update"
    /\ response.status = 200
    /\ DOMAIN response.payload = {"totalReceived"}
    /\ response.before[response.id].row.totalReceived = 0
    /\ response.before[response.id].row.deliveredAt = ADate
    /\ response.before[response.id].row.totalAmount = 2
    /\ store[response.id].row.totalReceived = 1
    /\ store[response.id].row.deliveredAt = ADate

\* C14: once the stored deliveredAt of a record is not null it stays not null
\* as long as the record exists, whatever request is made.
CexDeliveredNeverUnset ==
    response.op # "none" =>
        \A i \in Ids :
            (/\ response.before[i].exists
             /\ response.before[i].row.deliveredAt # Null
             /\ store[i].exists)
            => store[i].row.deliveredAt # Null

\* C15: the id and createdAt of a record never change: no request, whatever id
\* or createdAt its body carries, leaves an existing record with another id or
\* createdAt than before.
ThmIdentityImmutable ==
    response.op # "none" =>
        \A i \in Ids :
            /\ store[i].exists => store[i].row.id = i
            /\ (response.before[i].exists /\ store[i].exists)
               => /\ store[i].row.id = response.before[i].row.id
                  /\ store[i].row.createdAt = response.before[i].row.createdAt

WitIdentityImmutable ==
    /\ response.op = "update"
    /\ response.status = 200
    /\ DOMAIN response.payload = {"id", "createdAt", "totalReceived"}
    /\ response.id = "p1"
    /\ response.payload["id"] = Str("p2")
    /\ response.payload["createdAt"] = Str("t9")
    /\ store["p1"].row.createdAt = "t0"
    /\ store["p1"].row.totalReceived = 1

\* C16: every stored record has totalAmount > 0.
CexTotalAmountPositive ==
    \A i \in Ids : store[i].exists => store[i].row.totalAmount > 0

\* C18: get, delete and update with a non-empty body on an id that is not in
\* the store answer 404 and leave the store as it was; delete of an existing id
\* answers 200 and removes that record and no other; a delete that follows a
\* successful delete of the same id answers 404.
ThmNotFound ==
    /\ [](response.op \in {"get", "delete", "update"} =>
            LET id == response.id
                b == response.before
            IN  /\ (~b[id].exists /\ (response.op = "update" => DOMAIN response.payload # {}))
                   => (response.status = 404 /\ store = b)
                /\ (response.op = "delete" /\ b[id].exists)
                   => /\ response.status = 200
                      /\ ~store[id].exists
                      /\ \A j \in Ids \ {id} : store[j] = b[j])
    /\ [][(/\ response.op = "delete" /\ response.status = 200
           /\ response'.op = "delete" /\ response'.id = response.id)
          => response'.status = 404]_vars

WitNotFound ==
    /\ response.op = "delete"
    /\ response.status = 404
    /\ response.id = "p1"
    /\ ~response.before["p1"].exists
    /\ store["p2"].exists

\* the fields of a record that a create body of CreateBodies never supplies
UnsuppliedText ==
    {"clientName", "completedAt", "partnerShareGiven", "partnerShareDate",
     "harshkShareGiven", "harshkShareDate", "nikkuShareGiven", "nikkuShareDate",
     "completionVideoLink", "repoLink", "liveLink", "techStack", "deliverables"}

\* C19: a create that succeeds stores and returns a record with a non-empty id
\* and createdAt (the supplied ones, or generated ones when omitted), with
\* every money and lifecycle field the body does not supply at zero / absent,
\* and touches no other record; a body without name, type, deadline or
\* totalAmount is answered 400 and stores nothing; a well-formed body whose
\* id is not taken succeeds.
ThmCreateProject ==
    response.op = "create" =>
        LET p == response.payload
            b == response.before
            r == response.body
        IN  /\ response.status = 201 =>
                  /\ r.id # "" /\ r.createdAt # ""
                  /\ p.id # "" => r.id = p.id
                  /\ p.createdAt # "" => r.createdAt = p.createdAt
                  /\ ~b[r.id].exists
                  /\ store[r.id] = Entry(r, {})
                  /\ \A j \in Ids \ {r.id} : store[j] = b[j]
                  /\ r.advanceReceived = 0 /\ r.totalReceived = 0
                  /\ \A k \in UnsuppliedText : r[k] = Null
                  /\ r.deliveredAt = p.deliveredAt
            /\ (p.name = "" \/ p.type = "" \/ p.deadline = Str("") \/ p.totalAmount = 0)
               => (response.status = 400 /\ store = b)
            /\ response.status # 201 => store = b
            /\ (/\ p.name = "Site" /\ p.type \in ProjectTypes /\ p.deadline = GoodDeadline
                /\ p.totalAmount > 0 /\ (p.id # "" => ~b[p.id].exists))
               => response.status = 201

WitCreateProject ==
    /\ response.op = "create"
    /\ response.status = 201
    /\ response.payload.id = ""
    /\ response.payload.createdAt = ""
    /\ response.body.id = "p2"
    /\ response.body.createdAt = ServerNow
    /\ response.before["p1"].exists
    /\ store["p2"].exists

-----------------------------------------------------------------------------
(* SpecUpdate: one PUT /projects/{id} on a table that holds a newly created  *)
(* project.  The body draws each field from well-formed and malformed        *)
(* values, alone or next to a second field.                                  *)

RuleKeys ==
    {"id", "name", "type", "deadline", "totalAmount", "totalReceived",
     "completedAt", "deliveredAt", "colour"}

RuleValues(k) ==
    CASE k = "id"            -> {Str("p2")}
      [] k = "name"          -> {Str(""), Num(7), Str("Portal")}
      [] k = "type"          -> {Str("plugin"), Str("hardware")}
      [] k = "deadline"      -> {Str(""), Str("soon"), GoodDeadline}
      [] k = "totalAmount"   -> {Num(0 - 1), Num(0), Str("2"), Num(2)}
      [] k = "totalReceived" -> {Num(1), Frac(0)}
      [] k = "completedAt"   -> {ADate, Str("yesterday")}
      [] k = "deliveredAt"   -> {Null, Str(""), ADate, Str("yesterday"), Num(5)}
      [] k = "colour"        -> {Num(1)}

AllRuleValues == UNION {RuleValues(k) : k \in RuleKeys}

\* bodies of one or two fields
RuleKeySets == {K \in SUBSET RuleKeys : Cardinality(K) \in {1, 2}}

RuleBodies ==
    UNION {{u \in [K -> AllRuleValues] : \A k \in K : u[k] \in RuleValues(k)} :
              K \in RuleKeySets}

InitUpdate ==
    /\ \E r \in CreatedRows :
          store = [i \in Ids |-> IF i = PageId THEN Entry(r, {}) ELSE NoRow]
    /\ project = BaseProject
    /\ now = HoursPerDay
    /\ tzOffset = 0
    /\ derived = NotRendered
    /\ editingLink = "none"
    /\ tempLinkValue = Str("")
    /\ response = NoResponse
    /\ pages = NoPages
    /\ formData = NoForm
    /\ ctx = NoContext

NextUpdate ==
    \E id \in Ids, u \in RuleBodies : response = NoResponse /\ RequestUpdate(id, u)

SpecUpdate == InitUpdate /\ [][NextUpdate]_vars

-----------------------------------------------------------------------------
(* Properties of UpdateProject (checked under SpecUpdate) *)

\* the rules a field can fail: an empty name, a type outside the three, an
\* empty or non-ISO deadline, a totalAmount that is not above zero, a date
\* string that is not ISO
BreaksRule(k, v) ==
    CASE k = "name" -> v = Str("")
      [] k = "type" -> v \notin {Str(t) : t \in ProjectTypes}
      [] k = "deadline" -> v = Str("") \/ (IsString(v) /\ v.t # "date")
      [] k = "totalAmount" -> v.t = "num" /\ v.n <= 0
      [] k \in DateColumns -> IsString(v) /\ v # Str("") /\ v.t # "date"
      [] OTHER -> FALSE

\* the fields of a body the handler looks at (id and createdAt are skipped)
Examined(u) == DOMAIN u \ {"id", "createdAt"}

Malformed(u) ==
    \E k \in Examined(u) : k \notin FieldMap \/ BreaksRule(k, u[k])

\* C21: an update of an existing project whose body names a field outside the
\* allow-list, or a field that fails its rule, is answered 400 and leaves the
\* table as it was, also when the body carries a valid field as well.
ThmInvalidRejected ==
    (response.op = "update" /\ response.before[response.id].exists
        /\ Malformed(response.payload))
    => (response.status = 400 /\ store = response.before)

\* a body with a valid totalReceived next to a malformed field was rejected
WitInvalidRejected ==
    /\ response.op = "update"
    /\ response.before[response.id].exists
    /\ "totalReceived" \in DOMAIN response.payload
    /\ response.payload["totalReceived"] = Num(1)
    /\ response.before[response.id].row.totalReceived # 1
    /\ Malformed(response.payload)
    /\ response.status = 400
    /\ store = response.before

\* C27: an update answered 400, 404 or 500 leaves the table as it was, and an
\* update that changed the table is answered 200 with the stored record.
CexErrorLeavesStore ==
    response.op = "update"
    => /\ response.status \in {400, 404, 500} => store = response.before
       /\ store # response.before
            => (response.status = 200 /\ response.body = store[response.id].row)

\* the values a stored date field may hold: null, the empty string, ISO text
StoredDateOk(v) == v = Null \/ v = Str("") \/ v.t = "date"

\* C28: a date field that is neither null nor a string is answered 400, and
\* after an accepted update every stored date field is null, empty or ISO text.
CexDateValueKinds ==
    response.op = "update"
    => /\ (\E k \in DOMAIN response.payload \cap DateColumns :
              response.payload[k] # Null /\ ~IsString(response.payload[k]))
            => response.status = 400
       /\ response.status = 200
            => \A k \in DateColumns \cap DOMAIN store[response.id].row :
                  StoredDateOk(store[response.id].row[k])

-----------------------------------------------------------------------------
(* SpecForm: one browser that edits the money fields of a stored project in  *)
(* the project form and records payments on the detail page.  The form is    *)
(* mounted on the stored record (fetchProject), its inputs change formData,  *)
(* the submit validates and sends the whole record; after a successful       *)
(* submit the browser is back on the detail page with the updated record.    *)

\* what a money input of the form holds: nothing or digits; the same values
\* stand for the numbers setFormData(project) and handleChange put there
FormTexts == {Str("")} \cup {Num(n) : n \in 0..MaxAmount}

\* text the digits-only test of handleChange refuses
RefusedText == Str("1.5")

MoneyInputs == {"totalAmount", "advanceReceived", "totalReceived"}

\* parseFloat(value) || 0, and cleanNumber(value)
cleanNumber(v) == IF v.t = "num" THEN v.n ELSE 0

validateProject(p) ==
    /\ p.name # ""
    /\ p.type \in ProjectTypes
    /\ Truthy(p.deadline) /\ p.deadline.t = "date"
    /\ p.totalAmount > 0
    /\ ~(p.advanceReceived # 0 /\ p.advanceReceived < 0)
    /\ ~(p.totalReceived # 0 /\ p.totalReceived < 0)
    /\ ~(p.totalReceived # 0 /\ p.totalAmount # 0 /\ p.totalReceived > p.totalAmount)
    /\ \A f \in {"repoLink", "liveLink", "completionVideoLink"} :
           Truthy(p[f]) => validateURL(p[f])

\* useEffect of the form in edit mode: fetchProject(id).then(setFormData)
openForm ==
    /\ formData = NoForm
    /\ LET res == GetProject(store, PageId) IN
       /\ res.status = 200
       /\ formData' = [record          |-> normalizeProject(res.body),
                       totalAmount     |-> Num(res.body.totalAmount),
                       advanceReceived |-> Num(res.body.advanceReceived),
                       totalReceived   |-> Num(res.body.totalReceived),
                       errors          |-> FALSE]
    /\ UNCHANGED <<project, now, tzOffset, derived, store, editingLink, tempLinkValue,
                   response, pages, ctx>>

\* handleChange on a money input: a change of advanceReceived moves
\* totalReceived by the same difference
handleChange(name, value) ==
    /\ formData # NoForm
    /\ IF value = RefusedText
       THEN UNCHANGED formData
       ELSE IF name = "advanceReceived"
       THEN LET difference == cleanNumber(value) - cleanNumber(formData.advanceReceived)
                oldTotal == cleanNumber(formData.totalReceived)
            IN  formData' = [formData EXCEPT !.advanceReceived = value,
                                             !.totalReceived = Num(oldTotal + difference)]
       ELSE formData' = [formData EXCEPT ![name] = value]
    /\ UNCHANGED <<project, now, tzOffset, derived, store, editingLink, tempLinkValue,
                   response, pages, ctx>>

\* the body JSON.stringify makes of the submitted record: absent fields left out
FormPayload(sub) ==
    LET tagged(k) == IF k \in {"id", "createdAt", "name", "type"} THEN Str(sub[k])
                     ELSE IF k \in MoneyColumns THEN Num(sub[k])
                     ELSE sub[k]
        keys == {k \in DOMAIN sub : tagged(k) # Null}
    IN  [k \in keys |-> tagged(k)]

\* handleSubmit in edit mode: cleanNumber, validateProject, updateProject,
\* navigate; the detail page then shows the record the update returned
handleSubmit ==
    /\ formData # NoForm
    /\ LET submissionData ==
               [formData.record EXCEPT
                   !.totalAmount = cleanNumber(formData.totalAmount),
                   !.advanceReceived = cleanNumber(formData.advanceReceived),
                   !.totalReceived = cleanNumber(formData.totalReceived)]
           res == ContextUpdateProject(store, PageId, FormPayload(submissionData))
       IN  IF ~validateProject(submissionData)
           THEN /\ formData' = [formData EXCEPT !.errors = TRUE]
                /\ UNCHANGED <<project, derived, store>>
           ELSE /\ store' = res.store
                /\ formData' = IF res.ok THEN NoForm ELSE formData
                /\ project' = IF res.ok THEN res.project ELSE project
                /\ derived' = RenderValues(project', now, tzOffset, editingLink)
    /\ UNCHANGED <<now, tzOffset, editingLink, tempLinkValue, response, pages, ctx>>

\* the amounts recorded on the detail page between two edits: whole rupees
WholePayments == {Num(n) : n \in 1..MaxPayment}

InitForm == Init

NextForm ==
    \/ openForm
    \/ \E name \in MoneyInputs, value \in FormTexts \cup {RefusedText} :
           handleChange(name, value)
    \/ handleSubmit
    \/ \E a \in WholePayments : formData = NoForm /\ handlePaymentSubmit(a)

SpecForm == InitForm /\ [][NextForm]_vars

-----------------------------------------------------------------------------
(* Properties of the form (checked under SpecForm) *)

\* C24: every stored record has 0 <= advanceReceived <= totalReceived.
CexAdvanceWithinTotal ==
    \A i \in Ids :
        store[i].exists
        => /\ 0 <= store[i].row.advanceReceived
           /\ store[i].row.advanceReceived <= store[i].row.totalReceived

-----------------------------------------------------------------------------
(* SpecTwoClients: the detail page open in two browsers on the same         *)
(* project.  handlePaymentSubmit runs up to its await (the request leaves), *)
(* the backend serves the request, the handler resumes with the answer.     *)

Clients == {"c1", "c2"}

\* fetchProject on mount: both browsers hold the stored record
InitTwoClients ==
    /\ \E r \in CreatedRows :
          /\ store = [i \in Ids |-> IF i = PageId THEN Entry(r, {}) ELSE NoRow]
          /\ pages = [c \in Clients |->
                        [project |-> normalizeProject(r), phase |-> "idle",
                         amount |-> Str(""), loaded |-> 0,
                         request |-> <<>>, reply |-> NoRow]]
    /\ project = BaseProject
    /\ now = HoursPerDay
    /\ tzOffset = 0
    /\ derived = NotRendered
    /\ editingLink = "none"
    /\ tempLinkValue = Str("")
    /\ response = NoResponse
    /\ formData = NoForm
    /\ ctx = NoContext

\* a plausible slip: only a negative amount is refused (< 0 for <= 0)
paymentSend_zeroAccepted(c, paymentAmount) ==
    /\ pages[c].phase = "idle"
    /\ IF paymentAmount.t \notin {"num", "frac"}
          \/ (paymentAmount.t = "num" /\ paymentAmount.n < 0)
       THEN UNCHANGED pages
       ELSE LET sum == pages[c].project.totalReceived + paymentAmount.n
                newTotalReceived == IF paymentAmount.t = "frac" THEN Frac(sum) ELSE Num(sum)
            IN  pages' = [pages EXCEPT ![c].phase = "sent",
                                       ![c].amount = paymentAmount,
                                       ![c].loaded = pages[c].project.totalReceived,
                                       ![c].request = serializeProject(
                                           [k \in {"totalReceived"} |-> newTotalReceived])]
    /\ UNCHANGED <<project, now, tzOffset, derived, store, editingLink, tempLinkValue,
                   response, formData, ctx>>

\* handlePaymentSubmit up to "await updateProject(...)": the body is computed
\* from the page's own copy of the record
paymentSend(c, paymentAmount) ==
    /\ pages[c].phase = "idle"
    /\ IF paymentAmount.t \notin {"num", "frac"}
          \/ (paymentAmount.t = "num" /\ paymentAmount.n <= 0)
       THEN UNCHANGED pages
       ELSE LET sum == pages[c].project.totalReceived + paymentAmount.n
                newTotalReceived == IF paymentAmount.t = "frac" THEN Frac(sum) ELSE Num(sum)
            IN  pages' = [pages EXCEPT ![c].phase = "sent",
                                       ![c].amount = paymentAmount,
                                       ![c].loaded = pages[c].project.totalReceived,
                                       ![c].request = serializeProject(
                                           [k \in {"totalReceived"} |-> newTotalReceived])]
    /\ UNCHANGED <<project, now, tzOffset, derived, store, editingLink, tempLinkValue,
                   response, formData, ctx>>

\* the backend serves the PUT of browser c
serveUpdate(c) ==
    /\ pages[c].phase = "sent"
    /\ LET res == UpdateProject(store, PageId, pages[c].request) IN
       /\ store' = res.store
       /\ pages' = [pages EXCEPT ![c].phase = "answered",
                                  ![c].reply = [status |-> res.status, body |-> res.body]]
    /\ UNCHANGED <<project, now, tzOffset, derived, editingLink, tempLinkValue, response, formData, ctx>>

\* handlePaymentSubmit after the await: setProject(updatedProject), or the catch
paymentResume(c) ==
    /\ pages[c].phase = "answered"
    /\ pages' = [pages EXCEPT
                    ![c].phase = IF pages[c].reply.status = 200 THEN "done" ELSE "failed",
                    ![c].project = IF pages[c].reply.status = 200
                                   THEN normalizeProject(pages[c].reply.body)
                                   ELSE pages[c].project]
    /\ UNCHANGED <<project, now, tzOffset, derived, store, editingLink, tempLinkValue,
                   response, formData, ctx>>

NextTwoClients ==
    \/ \E c \in Clients, a \in PaymentInputs : paymentSend(c, a)
    \/ \E c \in Clients : serveUpdate(c)
    \/ \E c \in Clients : paymentResume(c)

SpecTwoClients == InitTwoClients /\ [][NextTwoClients]_vars

-----------------------------------------------------------------------------
(* Properties of two browsers (checked under SpecTwoClients) *)

\* C13: when two browsers that loaded the record with the same totalReceived r
\* have both recorded a payment (amounts a and b), the stored totalReceived
\* is r + a + b.
CexNoLostUpdate ==
    (/\ \A c \in Clients : pages[c].phase = "done" /\ pages[c].amount.t = "num"
     /\ pages["c1"].loaded = pages["c2"].loaded)
    => store[PageId].row.totalReceived
          = pages["c1"].loaded + pages["c1"].amount.n + pages["c2"].amount.n

\* the amounts handlePaymentSubmit accepts: a number above zero
PositiveAmount(a) == (a.t = "num" /\ a.n > 0) \/ a.t = "frac"

\* r + a as a JSON number
SumValue(r, a) == IF a.t = "frac" THEN Frac(r + a.n) ELSE Num(r + a.n)

\* C23: the request a record-payment action sends has the single field
\* totalReceived = r + a, r the totalReceived of the loaded project and a the
\* amount entered, a number above zero; with any other amount no request
\* leaves.  The stored record changes only when a request that was sent is
\* served, the displayed project only on a 200 answer.
ThmPaymentRequest ==
    /\ [](\A c \in Clients :
            IF pages[c].phase = "idle"
            THEN pages[c].request = <<>>
            ELSE /\ PositiveAmount(pages[c].amount)
                 /\ DOMAIN pages[c].request = {"totalReceived"}
                 /\ pages[c].request["totalReceived"]
                       = SumValue(pages[c].loaded, pages[c].amount))
    /\ [][store' # store
            => \E c \in Clients : pages[c].phase = "sent" /\ pages'[c].phase = "answered"]_vars
    /\ [][\A c \in Clients :
            pages'[c].project # pages[c].project
            => pages[c].phase = "answered" /\ pages[c].reply.status = 200]_vars

\* a payment of 1 on a project loaded with totalReceived 1 sent totalReceived 2
\* and was stored
WitPaymentRequest ==
    \E c \in Clients :
        /\ pages[c].phase = "done"
        /\ pages[c].loaded = 1
        /\ pages[c].amount = Num(1)
        /\ pages[c].request = [k \in {"totalReceived"} |-> Num(2)]
        /\ pages[c].project.totalReceived = 2
        /\ store[PageId].row.totalReceived = 2

-----------------------------------------------------------------------------
(* SpecContext: the operations of the project context of one browser, each   *)
(* await on its own.  An operation starts (setLoading(true), the request     *)
(* leaves), the backend serves the request, and the operation resumes with   *)
(* the answer; createProject and deleteProject then call fetchProjects and   *)
(* await it before they resolve.  Operations may be started while others are *)
(* in flight (the provider's fetchProjects on mount next to a page's         *)
(* fetchProject, a click while a request is pending).                         *)

MaxOps == 2             \* operations started in one behaviour

Slots == 1..MaxOps

NoReply == [status |-> 0, body |-> NoRow]

FreeOp ==
    [kind |-> "none", stage |-> "none", phase |-> "free", id |-> "", body |-> <<>>,
     reply |-> NoReply, overlapped |-> FALSE, ok |-> FALSE]

InFlight(o) == o.phase \in {"sent", "answered"}

\* GetProjects: every row, or 500 when a row cannot be scanned
GetProjects(st) ==
    IF \E i \in Ids : st[i].exists /\ st[i].frac # {}
    THEN [status |-> 500, store |-> st, body |-> NoRow]
    ELSE [status |-> 200, store |-> st,
          body |-> [i \in Ids |-> IF st[i].exists
                                  THEN [exists |-> TRUE, row |-> st[i].row]
                                  ELSE NoRow]]

\* data.map(normalizeProject)
CachedList(list) ==
    [i \in Ids |-> IF list[i].exists
                   THEN [exists |-> TRUE, row |-> normalizeProject(list[i].row)]
                   ELSE NoRow]

\* the bodies updateProject is called with: a whole amount, an amount with
\* decimals, an empty name
ContextUpdates ==
    {[k \in {"totalReceived"} |-> Num(MaxAmount)],
     [k \in {"totalReceived"} |-> Frac(0)],
     [k \in {"name"} |-> Str("")]}

ContextCalls ==
    {[kind |-> "fetchProjects", id |-> "", body |-> <<>>],
     [kind |-> "fetchProject", id |-> PageId, body |-> <<>>],
     [kind |-> "createProject", id |-> "", body |-> GoodBody]}
    \cup {[kind |-> "deleteProject", id |-> i, body |-> <<>>] : i \in Ids}
    \cup {[kind |-> "updateProject", id |-> PageId, body |-> u] : u \in ContextUpdates}

\* the rows the table holds when the provider is mounted
ContextRows == {r \in CreatedRows : r.clientName = Str("Acme") /\ r.totalAmount = MaxAmount}

\* the provider after its fetchProjects on mount
InitContext ==
    /\ \E r \in ContextRows :
          store = [i \in Ids |-> IF i = PageId THEN Entry(r, {}) ELSE NoRow]
    /\ ctx = [projects |-> CachedList(GetProjects(store).body),
              loading  |-> FALSE,
              error    |-> FALSE,
              ops      |-> [s \in Slots |-> FreeOp],
              last     |-> 0]
    /\ project = BaseProject
    /\ now = HoursPerDay
    /\ tzOffset = 0
    /\ derived = NotRendered
    /\ editingLink = "none"
    /\ tempLinkValue = Str("")
    /\ response = NoResponse
    /\ pages = NoPages
    /\ formData = NoForm

\* an operation up to its first await: setLoading(true), setError(null), fetch
ctxStart(s, call) ==
    /\ ctx.ops[s].phase = "free"
    /\ ctx' = [ctx EXCEPT
                 !.loading = TRUE,
                 !.error = FALSE,
                 !.ops = [t \in Slots |->
                            IF t = s
                            THEN [FreeOp EXCEPT
                                     !.kind = call.kind, !.stage = "main",
                                     !.phase = "sent", !.id = call.id,
                                     !.body = call.body,
                                     !.overlapped =
                                         \E u \in Slots \ {s} : InFlight(ctx.ops[u])]
                            ELSE IF InFlight(ctx.ops[t])
                                 THEN [ctx.ops[t] EXCEPT !.overlapped = TRUE]
                                 ELSE ctx.ops[t]]]
    /\ UNCHANGED <<project, now, tzOffset, derived, store, editingLink, tempLinkValue,
                   response, pages, formData>>

\* the answer of the backend to the request operation o has in flight
ServedRequest(st, o, fresh) ==
    IF o.kind = "fetchProjects" \/ o.stage # "main" THEN GetProjects(st)
    ELSE IF o.kind = "fetchProject" THEN GetProject(st, o.id)
    ELSE IF o.kind = "createProject" THEN CreateProject(st, o.body, fresh)
    ELSE IF o.kind = "updateProject" THEN UpdateProject(st, o.id, serializeProject(o.body))
    ELSE DeleteProject(st, o.id)

\* the backend serves the request of operation s
ctxServe(s) ==
    /\ ctx.ops[s].phase = "sent"
    /\ \E fresh \in Ids :
          /\ ~store[fresh].exists
               \/ ~(ctx.ops[s].kind = "createProject" /\ ctx.ops[s].stage = "main")
          /\ LET res == ServedRequest(store, ctx.ops[s], fresh) IN
             /\ store' = res.store
             /\ ctx' = [ctx EXCEPT
                          !.ops[s].phase = "answered",
                          !.ops[s].reply = [status |-> res.status, body |-> res.body]]
    /\ UNCHANGED <<project, now, tzOffset, derived, editingLink, tempLinkValue,
                   response, pages, formData>>

\* the operation after its await, up to its next await or its end
ctxResume(s) ==
    LET o == ctx.ops[s]
        okReply == o.reply.status \in {200, 201}
        listStage == o.kind = "fetchProjects" \/ o.stage # "main"
        \* createProject and deleteProject go on to fetchProjects; deleteProject twice
        nextStage ==
            IF o.kind \in {"createProject", "deleteProject"} /\ o.stage = "main" /\ okReply
            THEN "refetch1"
            ELSE IF o.kind = "deleteProject" /\ o.stage = "refetch1" THEN "refetch2"
            ELSE "end"
        \* fetchProjects never throws; the other operations throw on a bad answer
        resolved == IF listStage /\ o.kind # "fetchProjects" THEN TRUE ELSE okReply
        failed == ~okReply
        projects ==
            IF listStage /\ okReply THEN CachedList(o.reply.body)
            ELSE IF o.kind = "updateProject" /\ okReply
                 THEN [i \in Ids |->
                          IF ctx.projects[i].exists /\ i = o.id
                          THEN [exists |-> TRUE, row |-> normalizeProject(o.reply.body)]
                          ELSE ctx.projects[i]]
            ELSE ctx.projects
    IN  /\ o.phase = "answered"
        /\ ctx' = [ctx EXCEPT
                     !.projects = projects,
                     !.error = IF failed THEN TRUE
                               ELSE IF nextStage # "end" THEN FALSE ELSE @,
                     !.loading = nextStage # "end",
                     !.last = IF nextStage = "end" THEN s ELSE @,
                     !.ops[s] = IF nextStage = "end"
                                THEN [o EXCEPT !.phase = "done", !.ok = resolved]
                                ELSE [o EXCEPT !.phase = "sent", !.stage = nextStage,
                                               !.reply = NoReply]]
        /\ UNCHANGED <<project, now, tzOffset, derived, store, editingLink, tempLinkValue,
                       response, pages, formData>>

NextContext ==
    \/ \E s \in Slots, call \in ContextCalls : ctxStart(s, call)
    \/ \E s \in Slots : ctxServe(s)
    \/ \E s \in Slots : ctxResume(s)

SpecContext == InitContext /\ [][NextContext]_vars

-----------------------------------------------------------------------------
(* Properties of the context (checked under SpecContext) *)

\* the cached list holds the records of the table, every one as stored
CacheMatchesStore ==
    /\ \A i \in Ids : store[i].exists => store[i].frac = {}
    /\ ctx.projects = CachedList(GetProjects(store).body)

Quiet == \A s \in Slots : ~InFlight(ctx.ops[s])

\* C25: with no other operation in flight before or during it, after
\* createProject, updateProject or deleteProject has resolved the cached list
\* equals the records of the table.
CexCacheAfterOperation ==
    \A s \in Slots :
        (/\ ctx.last = s
         /\ ctx.ops[s].phase = "done" /\ ctx.ops[s].ok
         /\ ctx.ops[s].kind \in {"createProject", "updateProject", "deleteProject"}
         /\ \A t \in Slots : ~ctx.ops[t].overlapped
         /\ Quiet)
        => CacheMatchesStore

\* C29: once every operation that was started has completed successfully, the
\* cached list equals the records of the table, whatever the order in which
\* the answers arrived.
CexCacheConverges ==
    (/\ Quiet
     /\ \E s \in Slots : ctx.ops[s].phase = "done"
     /\ \A s \in Slots : ctx.ops[s].phase = "done" => ctx.ops[s].ok)
    => CacheMatchesStore

\* C30: loading is true exactly while an operation is in flight.
CexLoadingFlag ==
    ctx.loading = (\E s \in Slots : InFlight(ctx.ops[s]))

====
